---- MODULE Spec2Model ----
(***************************************************************************)
(* A model of the subprocess supervisor of client/fastapi_client.py        *)
(* (class MCPClient and the /health handler) together with the child       *)
(* process it drives over a pair of pipes.                                 *)
(*                                                                         *)
(* The client runs on one asyncio event loop: the code between two awaits  *)
(* of a coroutine is one atomic step, and coroutines interleave at their   *)
(* awaits.  Blocking calls (stdout.readline, process.wait) run on threads  *)
(* of the default executor, which outlive the coroutine that submitted     *)
(* them when asyncio.wait_for gives up on them.                            *)
(***************************************************************************)
EXTENDS Integers, Sequences, FiniteSets, TLC

\* ------------------------------------------------------------------ bounds
MaxTasks  == 2   \* coroutines that may be inside MCPClient at once
MaxSpawns == 2   \* child processes Popen may create in one behaviour
MaxCalls  == 2   \* request ids uuid4() hands out in one behaviour

Tasks == 1..MaxTasks
Pids  == 1..MaxSpawns
None  == 0

VARIABLES
    is_running,  \* MCPClient.is_running
    process,     \* MCPClient.process: None or the pid of a Popen object
    nspawned,    \* number of children created so far
    alive,       \* alive[p]: child p has not exited (Popen.poll() is None)
    stdin,       \* stdin[p]: request ids written to child p and not yet read by it
    stdout,      \* stdout[p]: response lines written by child p and not yet read
    sent,        \* sent[p]: signals delivered to child p, in order
    nextId,      \* the next fresh request id
    readers,     \* executor threads blocked in stdout.readline
    task         \* task[t]: the coroutine t and where it stands

vars == <<is_running, process, nspawned, alive, stdin, stdout, sent, nextId, readers, task>>

\* ------------------------------------------------------------ data shapes
NoHttp == [code |-> 0, status |-> "none", mcp_server_running |-> FALSE]

\* A result mapping the worker's tool handler returns: the keys search_web
\* reads, "absent" standing for a key the mapping does not carry.
NoPayload == [status |-> "absent", results |-> <<>>, total_results |-> 0,
              error |-> "absent", error_type |-> "absent", details |-> <<>>]

Idle == [op |-> "idle", pc |-> "idle", id |-> 0, proc |-> None, spawned |-> None,
         out |-> "none", stderr |-> None, got |-> 0, ret |-> NoPayload, http |-> NoHttp]

\* A coroutine that has returned (or raised) `out`.
Done(op, out) == [Idle EXCEPT !.op = op, !.pc = "done", !.out = out]

\* What stdout.readline hands back: end of file (the empty string), or a line.
EofLine == [eof |-> TRUE, id |-> 0, json |-> FALSE, result |-> "absent", error |-> "absent",
            message |-> "absent", payload |-> NoPayload]

\* A successful search that found nothing.
EmptySuccess == [NoPayload EXCEPT !.status = "success"]

\* The lines the worker writes: a result, an error, or text that is not JSON.
Shapes == { [json |-> TRUE,  result |-> "full",   error |-> "absent",
             message |-> "absent", payload |-> EmptySuccess],
            [json |-> TRUE,  result |-> "absent", error |-> "full",
             message |-> "absent", payload |-> NoPayload],
            [json |-> FALSE, result |-> "absent", error |-> "absent",
             message |-> "absent", payload |-> NoPayload] }

TextLine(i, s) == [eof |-> FALSE, id |-> i, json |-> s.json, result |-> s.result, error |-> s.error,
                   message |-> s.message, payload |-> s.payload]

\* Coroutine t returns (or raises) `out`; a start keeps the child it created.
Finish(t, op, out) ==
    [Done(op, out) EXCEPT !.spawned = task[t].spawned, !.stderr = task[t].stderr]

\* ------------------------------------------------------------------- Init
Init ==
    /\ is_running = FALSE
    /\ process = None
    /\ nspawned = 0
    /\ alive = [p \in Pids |-> FALSE]
    /\ stdin = [p \in Pids |-> <<>>]
    /\ stdout = [p \in Pids |-> <<>>]
    /\ sent = [p \in Pids |-> <<>>]
    /\ nextId = 1
    /\ readers = {}
    /\ task = [t \in Tasks |-> Idle]

\* ------------------------------------------------------- subprocess.Popen
\* A poll that reports every child as still running.
poll_never_exited(p) == TRUE

\* Popen.poll() is None
poll_is_None(p) == alive[p]

\* Popen.send_signal: polls first and signals only a child that has not exited.
Signalled(p, sig) == IF alive[p] THEN [sent EXCEPT ![p] = Append(@, sig)] ELSE sent

\* ------------------------------------------------------------ stop_server
\* A guard that forgets the running flag.
stop_guard_handle_only == process # None

\* `if self.process and self.is_running:`
stop_guard == process # None /\ is_running

\* A finally clause that drops the handle and leaves the flag set.
stop_finally_keeps_flag ==
    /\ is_running' = is_running
    /\ process' = None

\* The finally clause of stop_server.
stop_finally ==
    /\ is_running' = FALSE
    /\ process' = None

\* stop_server up to its await: the guard, terminate(), and the submission of
\* process.wait to the executor.  `op` is the coroutine running it (stop, or a
\* failing start through cleanup()), `fin` what that coroutine ends with, and
\* `err` the child whose error stream a failing start has read (else None).
stop_enter(t, op, fin, err) ==
    IF ~stop_guard
    THEN /\ task' = [task EXCEPT ![t] = [Finish(t, op, fin) EXCEPT !.stderr = err]]
         /\ UNCHANGED <<is_running, process, alive, sent>>
    ELSE \E raises \in BOOLEAN :
           IF raises
           THEN \* terminate() raised: except Exception, then finally
                /\ stop_finally
                /\ task' = [task EXCEPT ![t] = [Finish(t, op, fin) EXCEPT !.stderr = err]]
                /\ UNCHANGED <<alive, sent>>
           ELSE /\ sent' = Signalled(process, "TERM")
                /\ task' = [task EXCEPT ![t] =
                              [task[t] EXCEPT !.op = op, !.pc = "wait", !.proc = process,
                                              !.out = fin, !.stderr = err]]
                /\ UNCHANGED <<is_running, process, alive>>

stop_server(t) ==
    /\ task[t].pc = "idle"
    /\ stop_enter(t, "stop", "ok", None)
    /\ UNCHANGED <<nspawned, stdin, stdout, nextId, readers>>

\* process.wait returned within the grace period (or raised).
stop_wait_done(t) ==
    /\ task[t].pc = "wait"
    /\ \E raises \in BOOLEAN : raises \/ ~alive[task[t].proc]
    /\ stop_finally
    /\ task' = [task EXCEPT ![t] = Finish(t, task[t].op, task[t].out)]
    /\ UNCHANGED <<nspawned, alive, stdin, stdout, sent, nextId, readers>>

\* asyncio.TimeoutError after 5 seconds: `self.process.kill()`, then finally.
\* An exception raised by kill() leaves the handler and reaches the caller.
stop_wait_timeout(t) ==
    /\ task[t].pc = "wait"
    /\ \E raises \in BOOLEAN :
         IF process = None \/ raises
         THEN /\ task' = [task EXCEPT ![t] = Finish(t, task[t].op, "KillError")]
              /\ UNCHANGED <<alive, sent>>
         ELSE /\ sent' = Signalled(process, "KILL")
              /\ alive' = [alive EXCEPT ![process] = FALSE]
              /\ task' = [task EXCEPT ![t] = Finish(t, task[t].op, task[t].out)]
    /\ stop_finally
    /\ UNCHANGED <<nspawned, stdin, stdout, nextId, readers>>

\* ----------------------------------------------------------- start_server
\* A start that never finds the server running.
start_guard_absent == FALSE

\* `if self.is_running: return`
start_guard == is_running

\* start_server up to `await asyncio.sleep(1)`.
start_server(t) ==
    /\ task[t].pc = "idle"
    /\ IF start_guard
       THEN /\ task' = [task EXCEPT ![t] = Done("start", "noop")]
            /\ UNCHANGED <<is_running, process, nspawned, alive, sent>>
       ELSE \/ \* Popen raised: cleanup() finds is_running false
               /\ stop_enter(t, "start", "SpawnError", None)
               /\ UNCHANGED nspawned
            \/ /\ nspawned < MaxSpawns
               /\ nspawned' = nspawned + 1
               /\ process' = nspawned + 1
               /\ alive' = [alive EXCEPT ![nspawned + 1] = TRUE]
               /\ task' = [task EXCEPT ![t] =
                             [Idle EXCEPT !.op = "start", !.pc = "sleep",
                                          !.spawned = nspawned + 1]]
               /\ UNCHANGED <<is_running, sent>>
    /\ UNCHANGED <<stdin, stdout, nextId, readers>>

\* A start that sets the flag after the sleep without polling the child.
start_settled_unchecked(t) ==
    /\ task[t].pc = "sleep"
    /\ is_running' = TRUE
    /\ task' = [task EXCEPT ![t] = Finish(t, "start", "started")]
    /\ UNCHANGED <<process, alive, sent>>
    /\ UNCHANGED <<nspawned, stdin, stdout, nextId, readers>>

\* start_server after the sleep: poll the child self.process names now.
start_settled(t) ==
    /\ task[t].pc = "sleep"
    /\ IF process # None /\ poll_is_None(process)
       THEN /\ is_running' = TRUE
            /\ task' = [task EXCEPT ![t] = Finish(t, "start", "started")]
            /\ UNCHANGED <<process, alive, sent>>
       ELSE IF process = None
       THEN \* self.process.poll() on None: AttributeError, cleanup(), raise
            stop_enter(t, "start", "AttributeError", None)
       ELSE \* the child has exited: its stderr is read into the RuntimeError
            \* "MCP server failed to start: ...", then cleanup(), raise
            stop_enter(t, "start", "StartupFailure", process)
    /\ UNCHANGED <<nspawned, stdin, stdout, nextId, readers>>

\* -------------------------------------------------------------- call_tool
\* A guard that forgets the running flag.
call_guard_handle_only == process # None

\* `if not self.is_running or not self.process: raise RuntimeError(...)`
call_guard == is_running /\ process # None

\* The same without the `if not response_line` test: json.loads("") raises.
response_outcome_no_eof_test(line) ==
    IF line.eof \/ ~line.json THEN "InvalidJSON"
    ELSE IF line.error = "full" THEN "MCPError"
    ELSE IF line.result # "full" THEN "NoResult"
    ELSE "Ok"

\* A reading of the response that looks for the result first.
response_outcome_result_first(line) ==
    IF line.eof THEN "NoResponse"
    ELSE IF ~line.json THEN "InvalidJSON"
    ELSE IF line.result = "full" THEN "Ok"
    ELSE IF line.error = "full" THEN "MCPError"
    ELSE "NoResult"

\* Lines 147-164: what call_tool makes of the line readline returned.
response_outcome(line) ==
    IF line.eof THEN "NoResponse"
    ELSE IF ~line.json THEN "InvalidJSON"
    ELSE IF line.error = "full" THEN "MCPError"
    ELSE IF line.result # "full" THEN "NoResult"
    ELSE "Ok"

\* self.timeout, in seconds.
timeout == 30

\* Message texts are sequences of words; a text contains a phrase when the
\* phrase's words occur in it consecutively.
Contains(msg, phrase) ==
    \E i \in 1..(Len(msg) - Len(phrase) + 1) : SubSeq(msg, i, i + Len(phrase) - 1) = phrase

\* except Exception as e: raise RuntimeError(f"Error calling MCP tool: {str(e)}")
Wrapped(msg) == <<"Error", "calling", "MCP", "tool:">> \o msg

\* Handlers in which the timeout is caught by `except Exception` alone.
call_error_message_no_timeout_clause(out, message) ==
    CASE out = "NotRunning"  -> <<"MCP", "server", "is", "not", "running">>
      [] out = "Timeout"     -> Wrapped(<<>>)
      [] out = "InvalidJSON" -> <<"Invalid", "JSON", "response", "from", "MCP", "server:",
                                  "JSONDecodeError">>
      [] out = "BrokenPipe"  -> Wrapped(<<"[Errno", "32]", "Broken", "pipe">>)
      [] out = "NoResponse"  -> Wrapped(<<"No", "response", "received", "from", "MCP", "server">>)
      [] out = "MCPError"    -> Wrapped(<<"MCP", "error:">> \o
                                        (IF message = "absent"
                                         THEN <<"Unknown", "MCP", "error">> ELSE <<message>>))
      [] out = "NoResult"    -> Wrapped(<<"No", "result", "in", "MCP", "response">>)

\* The text of the RuntimeError call_tool raises for each failing outcome;
\* `message` is the "message" entry of the response's error object.
call_error_message(out, message) ==
    CASE out = "NotRunning"  -> <<"MCP", "server", "is", "not", "running">>
      [] out = "Timeout"     -> <<"MCP", "tool", "call", "timed", "out", "after",
                                  ToString(timeout), "seconds">>
      [] out = "InvalidJSON" -> <<"Invalid", "JSON", "response", "from", "MCP", "server:",
                                  "JSONDecodeError">>
      [] out = "BrokenPipe"  -> Wrapped(<<"[Errno", "32]", "Broken", "pipe">>)
      [] out = "NoResponse"  -> Wrapped(<<"No", "response", "received", "from", "MCP", "server">>)
      [] out = "MCPError"    -> Wrapped(<<"MCP", "error:">> \o
                                        (IF message = "absent"
                                         THEN <<"Unknown", "MCP", "error">> ELSE <<message>>))
      [] out = "NoResult"    -> Wrapped(<<"No", "result", "in", "MCP", "response">>)

\* A handler whose error branch does not read the mapping.
search_web_response_defaults_only(out, message, ret) ==
    IF out # "Ok"
    THEN [code |-> 500, status |-> "absent", results |-> <<>>,
          error |-> "absent", error_type |-> "absent",
          detail |-> <<"Search", "failed:">> \o call_error_message(out, message)]
    ELSE IF ret.status = "success"
    THEN [code |-> 200, status |-> "success", results |-> ret.results,
          error |-> "absent", error_type |-> "absent", detail |-> <<>>]
    ELSE [code |-> 200, status |-> "error", results |-> <<>>,
          error |-> "Unknown error", error_type |-> "unknown", detail |-> <<>>]

\* What POST /search answers once mcp_client.search has returned `ret` (out =
\* "Ok") or raised: the SearchResponse, or the HTTPException of the handler's
\* except clause.
search_web_response(out, message, ret) ==
    IF out # "Ok"
    THEN [code |-> 500, status |-> "absent", results |-> <<>>,
          error |-> "absent", error_type |-> "absent",
          detail |-> <<"Search", "failed:">> \o call_error_message(out, message)]
    ELSE IF ret.status = "success"
    THEN [code |-> 200, status |-> "success", results |-> ret.results,
          error |-> "absent", error_type |-> "absent", detail |-> <<>>]
    ELSE [code |-> 200, status |-> "error", results |-> <<>>,
          error |-> IF ret.error = "absent" THEN "Unknown error" ELSE ret.error,
          error_type |-> IF ret.error_type = "absent" THEN "unknown" ELSE ret.error_type,
          detail |-> <<>>]

\* call_tool has returned `ret` or raised, and search_web has answered.
CallDone(out, message, ret) ==
    [Done("call", out) EXCEPT !.ret = ret, !.http = search_web_response(out, message, ret)]

\* call_tool up to its await: the guard, a fresh id, the request line written
\* and flushed, and stdout.readline submitted to the executor.  Writing to the
\* pipe of a child that has exited raises BrokenPipeError.
call_tool(t) ==
    /\ task[t].pc = "idle"
    /\ IF ~call_guard
       THEN /\ task' = [task EXCEPT ![t] = CallDone("NotRunning", "absent", NoPayload)]
            /\ UNCHANGED <<stdin, nextId, readers>>
       ELSE /\ nextId <= MaxCalls
            /\ nextId' = nextId + 1
            /\ IF alive[process]
               THEN /\ stdin' = [stdin EXCEPT ![process] = Append(@, nextId)]
                    /\ readers' = readers \cup {[id |-> nextId, proc |-> process]}
                    /\ task' = [task EXCEPT ![t] =
                                  [Idle EXCEPT !.op = "call", !.pc = "read",
                                               !.id = nextId, !.proc = process]]
               ELSE /\ task' = [task EXCEPT ![t] = CallDone("BrokenPipe", "absent", NoPayload)]
                    /\ UNCHANGED <<stdin, readers>>
    /\ UNCHANGED <<is_running, process, nspawned, alive, stdout, sent>>

\* A timeout handler that gives the worker up: it records a crash.
call_timeout_marks_crashed(t) ==
    /\ task[t].pc = "read"
    /\ task' = [task EXCEPT ![t] =
                  [CallDone("Timeout", "absent", NoPayload) EXCEPT
                      !.id = task[t].id, !.proc = task[t].proc]]
    /\ is_running' = FALSE
    /\ UNCHANGED <<process, nspawned, alive, stdin, stdout, sent, nextId, readers>>

\* except asyncio.TimeoutError: the coroutine stops waiting; the executor
\* thread stays blocked in readline.
call_timeout(t) ==
    /\ task[t].pc = "read"
    /\ task' = [task EXCEPT ![t] =
                  [CallDone("Timeout", "absent", NoPayload) EXCEPT
                      !.id = task[t].id, !.proc = task[t].proc]]
    /\ UNCHANGED <<is_running, process, nspawned, alive, stdin, stdout, sent, nextId, readers>>

\* The coroutine, if any, still awaiting the readline submitted for request i.
Awaiting(i) == {t \in Tasks : task[t].op = "call" /\ task[t].pc = "read" /\ task[t].id = i}

\* The rest of call_tool once readline has returned `line` to coroutine t.
call_resume(t, line) ==
    [CallDone(response_outcome(line), line.message,
              IF response_outcome(line) = "Ok" THEN line.payload ELSE NoPayload) EXCEPT
        !.id = task[t].id,
        !.proc = task[t].proc,
        !.got = IF response_outcome(line) = "Ok" THEN line.id ELSE 0]

\* An executor thread's readline returns: the next line of the child's output,
\* or the empty string at end of file.  Threads blocked on the same stream take
\* lines in no fixed order.  The line goes to the coroutine awaiting this
\* thread, and is dropped when that coroutine has timed out.
readline(r) ==
    /\ r \in readers
    /\ \/ /\ stdout[r.proc] # <<>>
          /\ stdout' = [stdout EXCEPT ![r.proc] = Tail(@)]
          /\ task' = [t \in Tasks |->
                        IF t \in Awaiting(r.id)
                        THEN call_resume(t, Head(stdout[r.proc])) ELSE task[t]]
       \/ /\ stdout[r.proc] = <<>>
          /\ ~alive[r.proc]
          /\ task' = [t \in Tasks |->
                        IF t \in Awaiting(r.id) THEN call_resume(t, EofLine) ELSE task[t]]
          /\ UNCHANGED stdout
    /\ readers' = readers \ {r}
    /\ UNCHANGED <<is_running, process, nspawned, alive, stdin, sent, nextId>>

\* ----------------------------------------------------------- check_health
\* A check that trusts the flag and never polls the child.
check_health_value_no_poll == is_running /\ process # None

\* check_health's return value in the current state.
check_health_value ==
    IF ~is_running \/ process = None THEN FALSE
    ELSE poll_is_None(process)

\* A check that reports the exit without recording it.
check_health_running_unrecorded == is_running

\* check_health's side effect: a child found exited is recorded.
check_health_running ==
    IF is_running /\ process # None /\ ~poll_is_None(process) THEN FALSE ELSE is_running

\* The /health handler's answer.
health_response(is_healthy) ==
    IF is_healthy
    THEN [code |-> 200, status |-> "healthy", mcp_server_running |-> TRUE]
    ELSE [code |-> 200, status |-> "unhealthy", mcp_server_running |-> FALSE]

\* A health check that has to wait until no call is reading.
health_check_after_calls(t) ==
    /\ \A c \in Tasks : ~(task[c].op = "call" /\ task[c].pc = "read")
    /\ task[t].pc = "idle"
    /\ is_running' = check_health_running
    /\ task' = [task EXCEPT ![t] =
                  [Done("health", IF check_health_value THEN "true" ELSE "false")
                     EXCEPT !.http = health_response(check_health_value)]]
    /\ UNCHANGED <<process, nspawned, alive, stdin, stdout, sent, nextId, readers>>

\* GET /health: check_health has no await, so the handler is one step.
health_check(t) ==
    /\ task[t].pc = "idle"
    /\ is_running' = check_health_running
    /\ task' = [task EXCEPT ![t] =
                  [Done("health", IF check_health_value THEN "true" ELSE "false")
                     EXCEPT !.http = health_response(check_health_value)]]
    /\ UNCHANGED <<process, nspawned, alive, stdin, stdout, sent, nextId, readers>>

\* ------------------------------------------------- worker: provider client
MaxOrganic == 3   \* entries in the provider's result list

\* settings.request_timeout, in seconds.
request_timeout == 30

\* A link is the text of a URL cut after its scheme, <<>> the empty string;
\* result.get("link", "") makes an entry without a link an empty one.
Links == { <<"https://", "a.example">>, <<"http://", "a.example">>,
           <<"ftp://", "a.example">>, <<>> }

\* The provider's result lists: the k-th entry is titled k.
Organic ==
    UNION { { [k \in 1..n |-> [title |-> k, link |-> f[k]]] : f \in [1..n -> Links] }
            : n \in 0..MaxOrganic }

\* What the POST to the provider comes to: a timeout, a connection error, an
\* exception of another kind (a 200 body that is not JSON), or
\* a response with a status and a JSON body whose "organic" entry is missing,
\* not a list, or a list.
Replies ==
    { [kind |-> k, status |-> 0, organic |-> "missing", items |-> <<>>]
        : k \in {"timeout", "client_error", "unexpected"} }
    \cup { [kind |-> "response", status |-> s, organic |-> "missing", items |-> <<>>]
             : s \in {429, 500} }
    \cup { [kind |-> "response", status |-> 200, organic |-> o, items |-> <<>>]
             : o \in {"missing", "notlist"} }
    \cup { [kind |-> "response", status |-> 200, organic |-> "list", items |-> l]
             : l \in Organic }

\* not url or not url.startswith(("http://", "https://"))
invalid_url(url) == url = <<>> \/ url[1] \notin {"http://", "https://"}

\* The same loop giving enumerate's own index as the rank.
RECURSIVE parse_loop_zero_based(_, _)
parse_loop_zero_based(organic_results, i) ==
    IF i > Len(organic_results) THEN <<>>
    ELSE IF invalid_url(organic_results[i].link) THEN parse_loop_zero_based(organic_results, i + 1)
    ELSE <<[title |-> organic_results[i].title, url |-> organic_results[i].link, rank |-> i - 1]>>
         \o parse_loop_zero_based(organic_results, i + 1)

\* The for loop of _parse_results from 1-based position i on: enumerate's
\* index is i - 1, so the rank it gives is i.
RECURSIVE parse_loop(_, _)
parse_loop(organic_results, i) ==
    IF i > Len(organic_results) THEN <<>>
    ELSE IF invalid_url(organic_results[i].link) THEN parse_loop(organic_results, i + 1)
    ELSE <<[title |-> organic_results[i].title, url |-> organic_results[i].link, rank |-> i]>>
         \o parse_loop(organic_results, i + 1)

\* data.get("organic", [])
organic_of(data) == IF data.organic = "missing" THEN <<>> ELSE data.items

\* _parse_results: the list of results, or the WebSearchError it raises.
parse_results(data) ==
    IF data.organic = "notlist"
    THEN [raised |-> "WebSearchError", results |-> <<>>,
          msg |-> <<"Failed", "to", "parse", "search", "results:", "Invalid", "response",
                    "format:", "'organic'", "field", "is", "not", "a", "list">>]
    ELSE [raised |-> "none", results |-> parse_loop(organic_of(data), 1), msg |-> <<>>]

\* The first try block of search: what the request raises, "none" when it
\* leaves the response's JSON in `data`.
search_request(reply) ==
    CASE reply.kind = "timeout"      -> [raised |-> "TimeoutError", msg |-> <<>>]
      [] reply.kind = "client_error" -> [raised |-> "ClientError", msg |-> <<"Connection", "refused">>]
      [] reply.kind = "unexpected"   -> [raised |-> "JSONDecodeError", msg |-> <<"Expecting", "value">>]
      [] reply.status = 429          -> [raised |-> "WebSearchAPIError",
                                         msg |-> <<"API", "rate", "limit", "exceeded">>]
      [] reply.status # 200          -> [raised |-> "WebSearchAPIError",
                                         msg |-> <<"API", "error", ToString(reply.status) \o ":", "body">>]
      [] OTHER                       -> [raised |-> "none", msg |-> <<>>]

\* WebSearchTool.search: the WebSearchResponse, or the exception it raises.
\* The except clauses of the first try block are tried in order, so whatever
\* is neither a timeout nor an aiohttp.ClientError reaches `except Exception`.
search(reply) ==
    LET req == search_request(reply)
        parsed == parse_results(reply)
        Raise(kind, msg) == [raised |-> kind, msg |-> msg, results |-> <<>>, total_results |-> 0]
    IN CASE req.raised = "TimeoutError" ->
              Raise("WebSearchTimeoutError",
                    <<"Request", "timed", "out", "after", ToString(request_timeout), "seconds">>)
         [] req.raised = "ClientError" ->
              Raise("WebSearchError", <<"Network", "error:">> \o req.msg)
         [] req.raised \notin {"none", "TimeoutError", "ClientError"} ->
              Raise("WebSearchError", <<"Unexpected", "error:">> \o req.msg)
         [] req.raised = "none" /\ parsed.raised # "none" ->
              Raise("WebSearchError", <<"Failed", "to", "parse", "API", "response:">> \o parsed.msg)
         [] OTHER ->
              [raised |-> "none", msg |-> <<>>, results |-> parsed.results,
               total_results |-> Len(parsed.results)]

\* The mapping an except clause of the tool handler returns.
ErrorPayload(error, error_type, details) ==
    [status |-> "error", results |-> <<>>, total_results |-> 0,
     error |-> error, error_type |-> error_type, details |-> details]

\* The try block of the tool handler: WebSearchRequest(...) raises a
\* ValidationError for parameters outside its constraints, else search runs.
web_search_try(valid, reply) ==
    IF valid THEN search(reply)
    ELSE [raised |-> "ValidationError", msg |-> <<"validation", "error">>,
          results |-> <<>>, total_results |-> 0]

\* A handler without the final `except Exception` clause: what its clauses
\* do not catch leaves the handler.
web_search_tool_no_catch_all(valid, reply) ==
    LET response == web_search_try(valid, reply)
    IN CASE response.raised = "none" ->
              [status |-> "success", results |-> response.results,
               total_results |-> response.total_results,
               error |-> "absent", error_type |-> "absent", details |-> <<>>]
         [] response.raised = "WebSearchTimeoutError" ->
              ErrorPayload("Search request timed out", "timeout", response.msg)
         [] response.raised = "WebSearchAPIError" ->
              ErrorPayload("API error occurred", "api_error", response.msg)
         [] response.raised = "WebSearchError" ->
              ErrorPayload("Search error occurred", "search_error", response.msg)
         [] OTHER ->
              [status |-> "raised", results |-> <<>>, total_results |-> 0,
               error |-> "absent", error_type |-> "absent", details |-> response.msg]

\* The web_search tool handler: the mapping it returns for parameters that
\* are valid or not and a provider reply.
web_search_tool(valid, reply) ==
    LET response == web_search_try(valid, reply)
    IN CASE response.raised = "none" ->
              [status |-> "success", results |-> response.results,
               total_results |-> response.total_results,
               error |-> "absent", error_type |-> "absent", details |-> <<>>]
         [] response.raised = "WebSearchTimeoutError" ->
              ErrorPayload("Search request timed out", "timeout", response.msg)
         [] response.raised = "WebSearchAPIError" ->
              ErrorPayload("API error occurred", "api_error", response.msg)
         [] response.raised = "WebSearchError" ->
              ErrorPayload("Search error occurred", "search_error", response.msg)
         [] OTHER ->
              ErrorPayload("Unexpected error occurred", "internal_error",
                           <<"Internal", "server", "error">>)

\* The handler called with valid parameters, as POST /search calls it.
web_search(reply) == web_search_tool(TRUE, reply)

\* ------------------------------------------------------- the child process
\* The worker reads one request line and writes one response line for it.
ChildRespond(p) ==
    /\ alive[p]
    /\ stdin[p] # <<>>
    /\ \E s \in Shapes :
         stdout' = [stdout EXCEPT ![p] = Append(@, TextLine(Head(stdin[p]), s))]
    /\ stdin' = [stdin EXCEPT ![p] = Tail(@)]
    /\ UNCHANGED <<is_running, process, nspawned, alive, sent, nextId, readers, task>>

\* ------------------------------------------------------------------- Next
\* The caller takes the coroutine's result.
Return(t) ==
    /\ task[t].pc = "done"
    /\ task' = [task EXCEPT ![t] = Idle]
    /\ UNCHANGED <<is_running, process, nspawned, alive, stdin, stdout, sent, nextId, readers>>

\* The child exits: by itself, on a crash, or on SIGTERM.
ChildExit(p) ==
    /\ alive[p]
    /\ alive' = [alive EXCEPT ![p] = FALSE]
    /\ UNCHANGED <<is_running, process, nspawned, stdin, stdout, sent, nextId, readers, task>>

Next ==
    \/ \E t \in Tasks : start_server(t)
    \/ \E t \in Tasks : start_settled(t)
    \/ \E t \in Tasks : stop_server(t)
    \/ \E t \in Tasks : stop_wait_done(t)
    \/ \E t \in Tasks : stop_wait_timeout(t)
    \/ \E t \in Tasks : call_tool(t)
    \/ \E t \in Tasks : call_timeout(t)
    \/ \E r \in readers : readline(r)
    \/ \E t \in Tasks : health_check(t)
    \/ \E t \in Tasks : Return(t)
    \/ \E p \in Pids : ChildRespond(p)
    \/ \E p \in Pids : ChildExit(p)

Spec == Init /\ [][Next]_vars

\* The lifecycle as lifespan drives it: start_server and cleanup are awaited
\* one after the other by one owner, never two at a time; requests (call_tool,
\* health_check) still run concurrently with them and with each other.
LifecycleBusy ==
    \E t \in Tasks : task[t].op \in {"start", "stop"} /\ task[t].pc \in {"sleep", "wait"}

NextSerial ==
    \/ \E t \in Tasks : ~LifecycleBusy /\ start_server(t)
    \/ \E t \in Tasks : start_settled(t)
    \/ \E t \in Tasks : ~LifecycleBusy /\ stop_server(t)
    \/ \E t \in Tasks : stop_wait_done(t)
    \/ \E t \in Tasks : stop_wait_timeout(t)
    \/ \E t \in Tasks : call_tool(t)
    \/ \E t \in Tasks : call_timeout(t)
    \/ \E r \in readers : readline(r)
    \/ \E t \in Tasks : health_check(t)
    \/ \E t \in Tasks : Return(t)
    \/ \E p \in Pids : ChildRespond(p)
    \/ \E p \in Pids : ChildExit(p)

SerialSpec == Init /\ [][NextSerial]_vars

\* ------------------------------------------------------- the search path
\* SearchRequest's Field constraints.
min_length == 1
max_length == 500
ge == 1
le == 20

\* The bodies POST /search is sent: a query of some length, max_results left
\* out (or null) or given.
QueryLengths == {min_length - 1, min_length, max_length, max_length + 1}

Requests ==
    { [query_len |-> q, max_results_given |-> FALSE, max_results |-> 0] : q \in QueryLengths }
    \cup { [query_len |-> q, max_results_given |-> TRUE, max_results |-> m]
             : q \in QueryLengths, m \in {ge - 1, ge, le, le + 1} }

\* A validation that lets the empty query through.
SearchRequest_valid_no_min_length(req) ==
    /\ req.query_len <= max_length
    /\ req.max_results_given => (req.max_results >= ge /\ req.max_results <= le)

\* Validation of the body against SearchRequest.
SearchRequest_valid(req) ==
    /\ req.query_len >= min_length
    /\ req.query_len <= max_length
    /\ req.max_results_given => (req.max_results >= ge /\ req.max_results <= le)

\* The answer to a body that fails validation.
unprocessable_entity ==
    [code |-> 422, status |-> "absent", results |-> <<>>,
     error |-> "absent", error_type |-> "absent", detail |-> <<"validation", "error">>]

\* POST /search: a body that fails validation is answered before the handler
\* runs; otherwise the handler calls mcp_client.search, that is call_tool.
search_web_request(t, req) ==
    IF SearchRequest_valid(req)
    THEN call_tool(t)
    ELSE /\ task[t].pc = "idle"
         /\ task' = [task EXCEPT ![t] =
                       [Done("search", "Invalid") EXCEPT !.http = unprocessable_entity]]
         /\ UNCHANGED <<is_running, process, nspawned, alive, stdin, stdout, sent,
                        nextId, readers>>

search_web(t) == \E req \in Requests : search_web_request(t, req)

\* The lines that carry the tool handler's mapping for a provider reply.
ToolShapes(replies) ==
    { [json |-> TRUE, result |-> "full", error |-> "absent", message |-> "absent",
       payload |-> web_search(reply)] : reply \in replies }

\* The lines a child can write in answer to a request: the handler's mapping
\* for a reply without results, and the other JSON-RPC shapes call_tool tells
\* apart: result and error each absent, an empty mapping or a populated one,
\* the error with or without a "message" entry, and text that is not JSON.
WireShapes ==
    ToolShapes({ reply \in Replies : reply.items = <<>> })
    \cup { [json |-> TRUE, result |-> r, error |-> e, message |-> m,
             payload |-> IF r = "full" THEN EmptySuccess ELSE NoPayload]
           : r \in {"absent", "empty", "full"}, e \in {"absent", "empty", "full"},
             m \in {"absent", "E"} }
    \cup { [json |-> FALSE, result |-> "absent", error |-> "absent",
             message |-> "absent", payload |-> NoPayload] }

\* The child answers one request line with a line of one of `shapes`.
worker_writes(p, shapes) ==
    /\ alive[p]
    /\ stdin[p] # <<>>
    /\ \E s \in shapes :
         stdout' = [stdout EXCEPT ![p] = Append(@, TextLine(Head(stdin[p]), s))]
    /\ stdin' = [stdin EXCEPT ![p] = Tail(@)]
    /\ UNCHANGED <<is_running, process, nspawned, alive, sent, nextId, readers, task>>

\* The child answers with any line; only a populated error has a message.
worker_respond(p) ==
    worker_writes(p, { w \in WireShapes : w.message = "absent" \/ w.error = "full" })

NextSearch ==
    \/ \E t \in Tasks : start_server(t)
    \/ \E t \in Tasks : start_settled(t)
    \/ \E t \in Tasks : search_web(t)
    \/ \E t \in Tasks : call_timeout(t)
    \/ \E r \in readers : readline(r)
    \/ \E t \in Tasks : Return(t)
    \/ \E p \in Pids : worker_respond(p)
    \/ \E p \in Pids : ChildExit(p)

\* The application serving searches: the worker is started, requests arrive,
\* the child answers with any line.
SearchSpec == Init /\ [][NextSearch]_vars

\* The worker's tool handler answers a request for which the provider
\* replied `reply`.
tool_respond_to(p, reply) == worker_writes(p, ToolShapes({reply}))

\* The worker's tool handler answers, whatever the provider replied.
tool_respond(p) == \E reply \in Replies : tool_respond_to(p, reply)

\* The worker's tool handler answers a request whose parameters
\* WebSearchRequest refuses.
tool_rejects(p) ==
    worker_writes(p, { [json |-> TRUE, result |-> "full", error |-> "absent",
                        message |-> "absent", payload |-> web_search_tool(FALSE, reply)]
                       : reply \in Replies })

\* A request is outstanding: written and not yet answered to its caller.
Outstanding ==
    \/ readers # {}
    \/ \E t \in Tasks : task[t].pc = "read"
    \/ \E p \in Pids : stdin[p] # <<>> \/ stdout[p] # <<>>

NextWorker ==
    \/ \E t \in Tasks : start_server(t)
    \/ \E t \in Tasks : start_settled(t)
    \/ \E t \in Tasks : ~Outstanding /\ call_tool(t)
    \/ \E r \in readers : readline(r)
    \/ \E t \in Tasks : Return(t)
    \/ \E p \in Pids : tool_respond(p)
    \/ \E p \in Pids : tool_rejects(p)

\* The worker under test: searches sent one at a time to a worker that stays
\* up, the provider replying anything.
WorkerSpec == Init /\ [][NextWorker]_vars

\* ----------------------------------------------------------------- claims
\* Steps of the coroutines, told by what they do to task[t].
CallReturns(t)  == task[t].op = "call" /\ task[t].pc = "read" /\ task'[t].pc = "done"
CallInvoked(t)  == task[t].pc = "idle" /\ task'[t].op = "call"
InFlight        == {t \in Tasks : task[t].op = "call" /\ task[t].pc = "read"}

\* C1: under any interleaving of concurrent /search requests at most one
\* call() is in flight on the child's pipes: no request line is written while
\* an earlier call() has written its request and has not returned or failed.
C1_OneCallInFlight ==
    [][\A t \in Tasks :
          (CallInvoked(t) /\ task'[t].pc = "read") => InFlight = {}]_vars

\* C2: whenever call() returns a result, the result is the worker's response
\* to the request that same call wrote (response id = request id); after a
\* Timeout no later call() returns the timed-out request's late response.
C2_ResponseMatchesRequest ==
    \A t \in Tasks :
        (task[t].op = "call" /\ task[t].pc = "done" /\ task[t].out = "Ok")
            => task[t].got = task[t].id

\* C3: a call() that gets no response line within the timeout fails with
\* Timeout, and that failure changes neither the running flag nor the process
\* handle, sends the child no signal, does not end it, and writes nothing to
\* its input.
C3_TimeoutLeavesChildRunning ==
    [][\A t \in Tasks :
          /\ (call_timeout(t) => task'[t].out = "Timeout")
          /\ (CallReturns(t) /\ task'[t].out = "Timeout")
                => UNCHANGED <<is_running, process, alive, sent, stdin>>]_vars

C3_Witness ==
    \E t \in Tasks :
        /\ task[t].op = "call" /\ task[t].pc = "done" /\ task[t].out = "Timeout"
        /\ is_running /\ process = task[t].proc /\ alive[process]
        /\ sent[process] = <<>>

\* C4: call() invoked in any state other than Running (never started,
\* stopped, startup failed, crash recorded) fails with NotRunning and writes
\* nothing to the child's input.
C4_NotRunningRejected ==
    [][\A t \in Tasks :
          (CallInvoked(t) /\ ~(is_running /\ process # None))
             => /\ task'[t].pc = "done"
                /\ task'[t].out = "NotRunning"
                /\ stdin' = stdin]_vars

\* A call() rejected after a crash was recorded: the handle is still held.
C4_Witness ==
    \E t \in Tasks :
        /\ task[t].op = "call" /\ task[t].pc = "done" /\ task[t].out = "NotRunning"
        /\ ~is_running /\ process # None /\ nextId > 1

\* Coroutine t, running start_server, ends in this step with a failure.
StartFails(t) ==
    /\ task[t].pc # "done" /\ task'[t].op = "start" /\ task'[t].pc = "done"
    /\ task'[t].out \in {"SpawnError", "StartupFailure"}

\* C5: after start() fails on any path (spawn error, child found exited after
\* the settling interval) the cleanup has run to completion: the supervisor is
\* Stopped, holds no process handle, and no child spawned by that start() is
\* left alive.
C5_FailedStartCleansUp ==
    [][\A t \in Tasks :
          StartFails(t)
             => /\ ~is_running'
                /\ process' = None
                /\ (task'[t].spawned # None => ~alive'[task'[t].spawned])]_vars

\* Coroutine t, running a stop() that found the supervisor Running, ends.
StopEnds(t) ==
    /\ task'[t].op = "stop" /\ task'[t].pc = "done"
    /\ \/ task[t].pc = "wait"
       \/ task[t].pc = "idle" /\ process # None /\ is_running

\* C6: stop() invoked in the Running state always ends with the supervisor
\* Stopped and the process handle released, and never propagates an error to
\* its caller, whatever terminate, the wait or the forced kill do.
C6_StopNeverRaises ==
    [][\A t \in Tasks :
          StopEnds(t) => /\ ~is_running'
                         /\ process' = None
                         /\ task'[t].out = "ok"]_vars

\* The signals child p is sent in this step.
NewSignals(p) == SubSeq(sent'[p], Len(sent[p]) + 1, Len(sent'[p]))

\* t invokes stop()
StopInvoked(t) == task[t].pc = "idle" /\ task'[t].op = "stop"

\* C7: stop() is a no-op when not Running; when Running it first sends the
\* graceful terminate signal, and the forced kill is issued only by a stop()
\* whose grace period elapsed after its terminate, and only reaches a child
\* that has not exited; a stop() that is waiting can always finish.
C7_StopSequence ==
    /\ [][\A t \in Tasks :
            /\ (StopInvoked(t) /\ ~(process # None /\ is_running))
                  => /\ task'[t].pc = "done"
                     /\ UNCHANGED <<is_running, process, alive, sent, stdin, stdout>>
            /\ (StopInvoked(t) /\ process # None /\ is_running)
                  => /\ \A p \in Pids : "KILL" \notin {NewSignals(p)[i] : i \in 1..Len(NewSignals(p))}
                     /\ \/ task'[t].pc = "wait"
                              /\ task'[t].proc = process
                              /\ (alive[process] => NewSignals(process) = <<"TERM">>)
                        \/ task'[t].pc = "done" /\ sent' = sent]_vars
    /\ [][\A p \in Pids :
            NewSignals(p) # <<>> /\ NewSignals(p) # <<"TERM">>
               => /\ NewSignals(p) = <<"KILL">>
                  /\ alive[p] /\ ~alive'[p]
                  /\ \E t \in Tasks : task[t].pc = "wait" /\ task'[t].pc = "done"]_vars
    /\ [](\A t \in Tasks :
            task[t].pc = "wait" => ENABLED (stop_wait_done(t) \/ stop_wait_timeout(t)))

\* A stop() that sent terminate, waited out the grace period and killed.
C7_Witness ==
    \E t \in Tasks : \E p \in Pids :
        /\ task[t].op = "stop" /\ task[t].pc = "done" /\ task[t].out = "ok"
        /\ sent[p] = <<"TERM", "KILL">>
        /\ ~is_running /\ process = None

\* t serves GET /health
HealthStep(t) == task[t].pc = "idle" /\ task'[t].op = "health"

\* t's start_server finds the child alive after the settling interval
StartSucceeds(t) ==
    task[t].op = "start" /\ task[t].pc = "sleep" /\ task'[t].pc = "done" /\ task'[t].out = "started"

\* C8: isHealthy() returns true exactly when the state is Running and the
\* child has not exited; when it returns false because the child exited the
\* state is no longer Running afterwards, and it stays so until a start()
\* succeeds: until then call() fails with NotRunning and isHealthy() is false.
C8_HealthRecordsCrash ==
    [][/\ \A t \in Tasks :
            /\ HealthStep(t)
                 => /\ task'[t].pc = "done"
                    /\ task'[t].out = IF is_running /\ process # None /\ alive[process]
                                      THEN "true" ELSE "false"
                    /\ (is_running /\ process # None /\ ~alive[process]) => ~is_running'
            /\ (CallInvoked(t) /\ ~is_running)
                 => task'[t].pc = "done" /\ task'[t].out = "NotRunning"
       /\ (~is_running /\ is_running') => \E u \in Tasks : StartSucceeds(u)]_vars

\* A call() is still waiting on the child when isHealthy() finds the child
\* exited and records it: the flag was set when the call began and is clear.
C8_Witness ==
    \E t \in Tasks : \E u \in Tasks :
        /\ task[t].op = "health" /\ task[t].pc = "done" /\ task[t].out = "false"
        /\ task[u].op = "call" /\ task[u].pc = "read" /\ task[u].proc = process
        /\ ~is_running /\ ~alive[process]

\* C9: GET /health never raises: in every state it answers 200 with
\* status "healthy" and mcp_server_running true, or "unhealthy" and false, and
\* never reports mcp_server_running true when the child has exited.
C9_HealthEndpoint ==
    /\ [](\A t \in Tasks : task[t].pc = "idle" => ENABLED health_check(t))
    /\ [][\A t \in Tasks :
            HealthStep(t)
               => /\ task'[t].pc = "done"
                  /\ task'[t].http \in
                       { [code |-> 200, status |-> "healthy", mcp_server_running |-> TRUE],
                         [code |-> 200, status |-> "unhealthy", mcp_server_running |-> FALSE] }
                  /\ task'[t].http.mcp_server_running
                        => process # None /\ alive[process]]_vars

\* A call() found the pipe of the exited child broken while the flag still
\* said Running; /health then answered 200 "unhealthy".
C9_Witness ==
    \E t \in Tasks : \E u \in Tasks :
        /\ task[t].op = "health" /\ task[t].pc = "done"
        /\ task[t].http = [code |-> 200, status |-> "unhealthy", mcp_server_running |-> FALSE]
        /\ task[u].op = "call" /\ task[u].pc = "done" /\ task[u].out = "BrokenPipe"
        /\ ~is_running /\ process # None /\ ~alive[process]

\* A call() on child p has failed with ConnectionLost.
ConnectionLostOn(p) ==
    \E t \in Tasks :
        task[t].op = "call" /\ task[t].pc = "done" /\ task[t].out = "NoResponse" /\ task[t].proc = p

\* C10: when call() reads an empty line (the child's output stream is closed)
\* it fails with ConnectionLost, and the next isHealthy() check on that child
\* returns false and leaves the supervisor not Running.
C10_ConnectionLostThenUnhealthy ==
    [][\A t \in Tasks :
          /\ (CallReturns(t) /\ task'[t].out # "Timeout" /\ stdout[task[t].proc] = <<>>)
                => task'[t].out = "NoResponse"
          /\ (HealthStep(t) /\ process # None /\ ConnectionLostOn(process))
                => task'[t].out = "false" /\ ~is_running']_vars

\* A call() failed with ConnectionLost while the flag said Running, and the
\* health check that followed returned false and cleared the flag.
C10_Witness ==
    \E t \in Tasks : \E u \in Tasks :
        /\ task[t].op = "call" /\ task[t].pc = "done" /\ task[t].out = "NoResponse"
        /\ task[t].proc = process
        /\ task[u].op = "health" /\ task[u].pc = "done" /\ task[u].out = "false"
        /\ ~is_running

\* The step in which the readline of reader r returns a line of text.
LineRead(r) ==
    /\ r \in readers
    /\ readers' = readers \ {r}
    /\ stdout[r.proc] # <<>>
    /\ stdout'[r.proc] = Tail(stdout[r.proc])

\* C11: whenever call() reads a line that parses as JSON with a `result` field
\* (a populated or an empty mapping) and no populated `error`, it returns
\* exactly that mapping; and it fails with "No result in MCP response" only
\* when the line has neither a `result` nor an `error` field.
C11_ResultReturned ==
    [][\A r \in readers : \A t \in Awaiting(r.id) :
         LineRead(r) =>
           LET line == Head(stdout[r.proc])
           IN /\ (line.json /\ line.result # "absent" /\ line.error # "full")
                   => (task'[t].out = "Ok" /\ task'[t].ret = line.payload)
              /\ task'[t].out = "NoResult"
                   => (line.result = "absent" /\ line.error = "absent")]_vars

\* C12: whenever call() reads a line whose `error` is a populated object it
\* returns no result and fails with "MCP error: <message>", the message being
\* the error's own, also when the line carries a result as well; a line is
\* accepted only with a populated result and no populated error.
C12_ErrorNeverReturnsResult ==
    [][\A r \in readers : \A t \in Awaiting(r.id) :
         LineRead(r) =>
           LET line == Head(stdout[r.proc])
           IN /\ (line.json /\ line.error = "full")
                   => /\ task'[t].out = "MCPError"
                      /\ task'[t].ret = NoPayload
                      /\ task'[t].http.code # 200
                      /\ line.message # "absent"
                           => Contains(task'[t].http.detail, <<"MCP", "error:", line.message>>)
              /\ task'[t].out = "Ok" => (line.result = "full" /\ line.error # "full")]_vars

\* A call has failed with the message of the error object the child sent.
C12_Witness ==
    \E t \in Tasks :
        /\ task[t].op = "call" /\ task[t].pc = "done" /\ task[t].out = "MCPError"
        /\ Contains(task[t].http.detail, <<"MCP", "error:", "E">>)

\* The step in which start() of coroutine t comes back from its settling sleep.
Settles(t) == task[t].op = "start" /\ task[t].pc = "sleep" /\ task'[t].pc # "sleep"

\* C13: when start() comes back from the settling interval and the child it
\* spawned has exited, it fails with the StartupFailure that carries that
\* child's error-stream text and the supervisor is not Running; when the child
\* is still alive, it succeeds and the supervisor is Running.
C13_StartOutcome ==
    [][\A t \in Tasks :
         Settles(t) =>
           IF alive[task[t].spawned]
           THEN /\ task'[t].pc = "done" /\ task'[t].out = "started"
                /\ is_running'
           ELSE /\ task'[t].pc = "done" /\ task'[t].out = "StartupFailure"
                /\ task'[t].stderr = task[t].spawned
                /\ ~is_running']_vars

\* A start has failed with the error text of the child it spawned.
C13_Witness ==
    \E t \in Tasks :
        /\ task[t].op = "start" /\ task[t].pc = "done" /\ task[t].out = "StartupFailure"
        /\ task[t].spawned # None /\ task[t].stderr = task[t].spawned
        /\ ~alive[task[t].spawned] /\ ~is_running

\* C14: start() invoked while the supervisor is Running does nothing: no child
\* is spawned, and the running flag, the process handle, the children and
\* their pipes are as they were.
C14_StartWhileRunningNoOp ==
    [][\A t \in Tasks :
         (task[t].pc = "idle" /\ task'[t].op = "start" /\ is_running) =>
           /\ task'[t].pc = "done" /\ task'[t].out = "noop"
           /\ task'[t].spawned = None
           /\ UNCHANGED <<is_running, process, nspawned, alive, stdin, stdout, sent>>]_vars

\* A start has returned at once while the worker it found was running.
C14_Witness ==
    \E t \in Tasks :
        /\ task[t].op = "start" /\ task[t].pc = "done" /\ task[t].out = "noop"
        /\ is_running /\ process # None /\ alive[process]
        /\ nspawned = 1

\* The children a stop() has signalled: stop() acts only from Running.
StoppedChildren == {q \in Pids : sent[q] # <<>>}

\* C15: after a stop() from Running, a start() spawns a new child (unless
\* Popen fails); if that child is alive at the end of the settling interval
\* the supervisor is Running with the handle of that new child, which no
\* stop() has touched; and a health check made in that state while the child
\* lives answers true and leaves it Running.
C15_RestartHealthy ==
    [][/\ \A t \in Tasks :
            (/\ task[t].pc = "idle" /\ task'[t].op = "start"
             /\ StoppedChildren # {} /\ process = None) =>
              \/ task'[t].out = "SpawnError"
              \/ /\ task'[t].pc = "sleep"
                 /\ process' = task'[t].spawned
                 /\ process' \notin StoppedChildren
                 /\ alive'[process']
       /\ \A t \in Tasks :
            (Settles(t) /\ StoppedChildren # {} /\ alive[task[t].spawned]) =>
              /\ task'[t].pc = "done" /\ task'[t].out = "started"
              /\ is_running'
              /\ process' = task[t].spawned
              /\ process' \notin StoppedChildren
       /\ \A u \in Tasks :
            (/\ HealthStep(u)
             /\ StoppedChildren # {}
             /\ \E t \in Tasks : /\ task[t].op = "start" /\ task[t].out = "started"
                                 /\ task[t].spawned = process
             /\ is_running /\ alive[process]) =>
              (task'[u].out = "true" /\ is_running' /\ process' = process)]_vars

\* Stopped, started again, and found healthy on the new child.
C15_Witness ==
    /\ StoppedChildren # {}
    /\ is_running /\ process # None /\ alive[process] /\ process \notin StoppedChildren
    /\ \E t \in Tasks : /\ task[t].op = "start" /\ task[t].pc = "done"
                        /\ task[t].out = "started" /\ task[t].spawned = process
    /\ \E u \in Tasks : task[u].op = "health" /\ task[u].pc = "done" /\ task[u].out = "true"

\* C16: a POST /search whose call() ran into the timeout is answered with
\* HTTP 500, and the detail of that answer contains "timed out".
C16_TimeoutIs500 ==
    [][\A t \in Tasks :
         (task[t].op = "call" /\ task[t].pc = "read" /\ task'[t].out = "Timeout") =>
           /\ task'[t].pc = "done"
           /\ task'[t].http.code = 500
           /\ Contains(task'[t].http.detail, <<"timed", "out">>)]_vars

\* A search has been answered 500 after its call timed out.
C16_Witness ==
    \E t \in Tasks :
        /\ task[t].op = "call" /\ task[t].pc = "done" /\ task[t].out = "Timeout"
        /\ task[t].http.code = 500
        /\ task[t].http.detail = <<"Search", "failed:", "MCP", "tool", "call", "timed", "out",
                                   "after", "30", "seconds">>

\* The bodies the claim calls invalid: an empty query, a query of more than
\* 500 characters, a max_results outside 1..20.
FailsValidation(req) ==
    \/ req.query_len = 0
    \/ req.query_len > 500
    \/ req.max_results_given /\ (req.max_results < 1 \/ req.max_results > 20)

\* C17: every POST /search whose body fails validation is answered with HTTP
\* 422 and the supervisor is not invoked: no request id is drawn, no line is
\* written to a child and no readline is submitted.
C17_InvalidRequestIs422 ==
    [][\A t \in Tasks :
         (task[t].pc = "idle" /\ task'[t].op \in {"search", "call"}) =>
           \A req \in Requests :
             (FailsValidation(req) /\ search_web_request(t, req)) =>
               /\ task'[t].pc = "done" /\ task'[t].http.code = 422
               /\ UNCHANGED <<is_running, process, nspawned, alive, stdin, stdout, sent,
                              nextId, readers>>]_vars

\* A search was refused while the worker was up, and nothing was sent to it.
C17_Witness ==
    \E t \in Tasks :
        /\ task[t].op = "search" /\ task[t].pc = "done" /\ task[t].http.code = 422
        /\ is_running /\ process # None /\ alive[process]
        /\ nextId = 1 /\ stdin[process] = <<>> /\ readers = {}

Answered(p) == stdout'[p][Len(stdout'[p])].payload

\* C19: when the provider answers 200 with a body whose `organic` entry is
\* missing or is not a list, the search fails with a parse failure whose text
\* contains "Failed to parse"; the worker does not report a success with an
\* empty result list.
C19_MalformedBodyFails ==
    [][\A p \in Pids : \A reply \in Replies :
         (/\ reply.kind = "response" /\ reply.status = 200
          /\ reply.organic \in {"missing", "notlist"}
          /\ tool_respond_to(p, reply)) =>
           /\ search(reply).raised = "WebSearchError"
           /\ Contains(search(reply).msg, <<"Failed", "to", "parse">>)
           /\ Answered(p).status = "error"
           /\ Contains(Answered(p).details, <<"Failed", "to", "parse">>)]_vars

\* The positions of a provider list whose entry has an http or https URL.
UsableEntries(items) ==
    {i \in 1..Len(items) : items[i].link # <<>> /\ items[i].link[1] \in {"http://", "https://"}}

\* C20: for every provider result list, the results returned are exactly the
\* entries with a usable http/https URL, in their original relative order, and
\* the K of them carry the ranks 1..K.
C20_RanksContiguous ==
    [][\A p \in Pids : \A reply \in Replies :
         (/\ reply.kind = "response" /\ reply.status = 200 /\ reply.organic = "list"
          /\ tool_respond_to(p, reply)) =>
           LET results == Answered(p).results
               K == Cardinality(UsableEntries(reply.items))
           IN /\ Answered(p).status = "success"
              /\ Len(results) = K
              /\ {results[k].title : k \in 1..Len(results)} = UsableEntries(reply.items)
              /\ \A j, k \in 1..Len(results) : j < k => results[j].title < results[k].title
              /\ \A k \in 1..Len(results) : results[k].rank = k]_vars

\* C21: when the provider answers 200 with a list of N entries that all have
\* an http/https link, the worker reports a success with exactly N results
\* and total_results = N, the k-th result being the provider's k-th entry
\* with rank k.
C21_WellFormedListKept ==
    [][\A p \in Pids : \A reply \in Replies :
         (/\ reply.kind = "response" /\ reply.status = 200 /\ reply.organic = "list"
          /\ UsableEntries(reply.items) = 1..Len(reply.items)
          /\ tool_respond_to(p, reply)) =>
           LET results == Answered(p).results
               N == Len(reply.items)
           IN /\ Answered(p).status = "success"
              /\ Len(results) = N
              /\ Answered(p).total_results = N
              /\ \A k \in 1..N : /\ results[k].rank = k
                                 /\ results[k].title = reply.items[k].title
                                 /\ results[k].url = reply.items[k].link]_vars

\* A search has returned the two results of a well-formed provider list.
C21_Witness ==
    \E t \in Tasks :
        /\ task[t].op = "call" /\ task[t].pc = "done" /\ task[t].out = "Ok"
        /\ task[t].ret.status = "success" /\ task[t].ret.total_results = 2
        /\ Len(task[t].ret.results) = 2
        /\ task[t].ret.results[1].rank = 1 /\ task[t].ret.results[2].rank = 2
        /\ task[t].http.code = 200 /\ Len(task[t].http.results) = 2

\* C22: a provider status of 429, and any other status that is not 200, makes
\* search() fail with the API-error kind (for the latter, with the status in
\* its text), a kind distinct from the timeout, network and generic search
\* errors, so that the worker reports error_type "api_error".
C22_ApiErrorKind ==
    [][\A p \in Pids : \A reply \in Replies :
         (/\ reply.kind = "response" /\ reply.status # 200
          /\ tool_respond_to(p, reply)) =>
           /\ search(reply).raised = "WebSearchAPIError"
           /\ reply.status # 429 =>
                Contains(search(reply).msg, <<"API", "error", ToString(reply.status) \o ":">>)
           /\ Answered(p).status = "error"
           /\ Answered(p).error_type = "api_error"]_vars

\* The step in which the worker at child p takes a request line off its input.
Handles(p) == stdin[p] # <<>> /\ stdin'[p] = Tail(stdin[p])

\* C23: whatever the provider client does (success, timeout, API error,
\* network error, parse error, another exception) and also when the request
\* parameters are invalid, the tool handler returns a mapping whose status is
\* "success" or "error" (an error with one of the four error types); the
\* worker writes exactly one response line for the request and stays alive.
C23_HandlerNeverRaises ==
    [][\A p \in Pids :
         Handles(p) =>
           /\ \A valid \in BOOLEAN : \A reply \in Replies :
                LET payload == web_search_tool(valid, reply)
                IN /\ payload.status \in {"success", "error"}
                   /\ payload.status = "error" =>
                        payload.error_type \in {"timeout", "api_error", "search_error",
                                                "internal_error"}
                   /\ ~valid => payload.status = "error"
           /\ Len(stdout'[p]) = Len(stdout[p]) + 1
           /\ Answered(p).status \in {"success", "error"}
           /\ alive'[p]]_vars

\* A request with invalid parameters was answered with an error mapping, and
\* the worker is still up.
C23_Witness ==
    \E t \in Tasks :
        /\ task[t].op = "call" /\ task[t].pc = "done" /\ task[t].out = "Ok"
        /\ task[t].ret.status = "error" /\ task[t].ret.error_type = "internal_error"
        /\ task[t].proc # None /\ alive[task[t].proc]

\* C24: while a call() waits for the child's response line, a health check is
\* not held back by it: any idle coroutine can run the check, the check
\* answers in its own step, and the waiting calls are still waiting after it.
C24_HealthNotBlockedByCall ==
    [][/\ InFlight # {} =>
            \A u \in Tasks : task[u].pc = "idle" => ENABLED health_check(u)
       /\ \A u \in Tasks :
            (HealthStep(u) /\ InFlight # {}) =>
              /\ task'[u].pc = "done"
              /\ task'[u].http.code = 200
              /\ \A t \in InFlight : task'[t] = task[t]]_vars

\* A health check has answered while a call is still waiting for its line.
C24_Witness ==
    /\ \E t \in Tasks : task[t].op = "call" /\ task[t].pc = "read"
    /\ \E u \in Tasks : /\ task[u].op = "health" /\ task[u].pc = "done"
                        /\ task[u].out = "true" /\ task[u].http.status = "healthy"

\* The children that have not exited.
LiveChildren == {p \in Pids : alive[p]}

\* C25: under every interleaving of start(), stop() and health checks at most
\* one spawned child is alive at a time, and the supervisor never replaces or
\* drops the handle of a child that is still alive.
C25_OneLiveChild ==
    [][/\ Cardinality(LiveChildren') <= 1
       /\ (process # None /\ alive[process] /\ alive'[process]) => process' = process]_vars

\* The step in which coroutine t's call() ends, with a result or a failure.
CallEnds(t) == task[t].op = "call" /\ task[t].pc = "read" /\ task'[t].pc = "done"

\* C26: whenever the running flag is set a process handle is held; the flag
\* is set only by a start() that has just found the child alive, it is
\* cleared only by stop_server's finally clause (which drops the handle in
\* the same step) or by a health check that found the child exited, and no
\* call(), however it ends, changes the flag or the handle.
C26_FlagImpliesHandle ==
    [][/\ is_running' => process' # None
       /\ (~is_running /\ is_running') =>
            \E t \in Tasks : /\ StartSucceeds(t)
                             /\ process # None /\ alive[process] /\ process' = process
       /\ (is_running /\ ~is_running') =>
            \/ process' = None
            \/ \E u \in Tasks : HealthStep(u) /\ process # None /\ ~alive[process]
       /\ \A t \in Tasks :
            (CallInvoked(t) \/ CallEnds(t)) => UNCHANGED <<is_running, process>>]_vars

\* The worker is running, and a call has been made and has ended.
C26_Witness ==
    /\ is_running /\ process # None
    /\ \E t \in Tasks : /\ task[t].op = "call" /\ task[t].pc = "done"
                        /\ task[t].out \in {"Ok", "Timeout", "MCPError"}
                        /\ task[t].proc = process

====
